---- MODULE Spec2Model ----
(***************************************************************************)
(* A model of clang_combined_time_trace.py: the event classifier           *)
(* (TraceStatistics.load_event), the interval nesting resolver             *)
(* (TraceStatistics.finish), the entity merge (Entity.combine) and the     *)
(* cross-file fold (TotalStatistics.process_file_stats).                   *)
(*                                                                         *)
(* Python objects are modelled with their identity.  Every Entity that     *)
(* outlives a call is the one stored under f.entities[n] of some           *)
(* TraceStatistics f, so an Entity reference is the file f (with the name  *)
(* n); every ParentHeaderInfo is created by finish() of a file g for an    *)
(* entity n and a header h, so a ParentHeaderInfo reference is the file g  *)
(* (with n and h).  TotalStatistics.entities[n] and                        *)
(* Entity.parent_header_files[h] hold such references, as the code stores  *)
(* the objects themselves and not copies.                                  *)
(*                                                                         *)
(* A failed assert (or KeyError) is never caught in the source: it ends    *)
(* the run.  The model records it in err and stops there, keeping whatever *)
(* the interrupted call had already written.                               *)
(***************************************************************************)
EXTENDS Integers, Sequences, FiniteSets, TLC

----------------------------------------------------------------------------
(* Bounds of the model *)

NumFiles == 2
MaxTs == 1
MaxDur == 2
MaxOcc == 3
MaxMisuseOcc == 2
MaxEvents == 2
MaxFoldTime == 1
MaxFileSize == 2
MaxClassified == 2
MaxClassifyDur == 1

----------------------------------------------------------------------------
(* Module constants of the source *)

EXPECTED_PID == 1
EXPECTED_TID_FOR_NON_UNIQUE_EVENTS == 0

EXPECTED_EVENT_TYPES == {"M", "X"}
IGNORED_EVENT_TYPES == {"M"}

IGNORED_EVENT_NAMES ==
    { "Total ParseClass", "Total ParseTemplate",
      "Total PerformPendingInstantiations", "Total OptModule",
      "Total OptFunction", "Total RunPass", "Total RunLoopPass",
      "Total CodeGen Function", "ExecuteCompiler", "Frontend", "Backend",
      "OptModule", "OptFunction", "RunPass", "RunLoopPass", "ParseClass",
      "ParseTemplate", "PerformPendingInstantiations", "CodeGen Function" }

PROCESSED_UNIQUE_EVENT_NAMES ==
    { "Total ExecuteCompiler", "Total Frontend", "Total Source",
      "Total InstantiateFunction", "Total InstantiateClass", "Total Backend" }

PROCESSED_NON_UNIQUE_EVENT_NAMES ==
    { "Source", "InstantiateFunction", "InstantiateClass" }

----------------------------------------------------------------------------
(* Values *)

Files == 1 .. NumFiles

\* Entity names (args/detail): header paths, function and class names.
Names == { "a.h", "b.h" }

\* The absent reference (a missing dict key).
NoRef == 0

NoError == "none"

\* A JSON value is modelled by its Python type and, for an int, its value,
\* for a str naming an entity, its text; "missing" is an absent key.
JsonTypes == { "int", "str", "missing" }

\* class ParentHeaderInfo (file_name is the key it is stored under).
ParentHeaderInfo(count, duration) == [count |-> count, duration |-> duration]

\* class ParentSourcesInfo
ParentSourcesInfo == [count |-> 0, duration |-> 0]

\* class Entity; parent_header_files maps a header name to the reference
\* of its ParentHeaderInfo, NoRef when the key is absent.
Entity(name, event_name, duration) ==
    [ name |-> name,
      event_name |-> event_name,
      duration |-> duration,
      parent_sources_info |-> ParentSourcesInfo,
      parent_header_files |-> [h \in Names |-> NoRef] ]

\* The value of entities[n] when the dict has no key n.
NoEntity == Entity("", "", 0)

\* class TraceStatistics.TimeInfo
TimeInfo(entity_name, timestamp, duration) ==
    [entity_name |-> entity_name, timestamp |-> timestamp, duration |-> duration]

\* Statistics.__init__: every unique total starts at 0, no entities.
InitTotal == [n \in PROCESSED_UNIQUE_EVENT_NAMES |-> 0]

\* TraceStatistics.__init__; order is the insertion order of the dict
\* entities, the order in which process_file_stats walks it.
InitTraceStatistics ==
    [ total |-> InitTotal,
      entities |-> [n \in Names |-> NoEntity],
      order |-> << >>,
      time_infos |-> << >>,
      finished |-> FALSE ]

\* TotalStatistics.__init__; entities maps a name to the file whose Entity
\* object the dict holds.
InitTotalStatistics ==
    [ total |-> InitTotal,
      entities |-> [n \in Names |-> NoRef],
      file_count |-> 0,
      total_trace_file_size |-> 0 ]

\* The local variables of finish(), kept for inspection: the stack
\* waiting_entity_infos (TimeInfo objects, by their index in _time_infos),
\* every pop <<top, cur>> of line 180 and every match <<child, parent>>
\* recorded at lines 186-191.
InitResolver == [waiting_entity_infos |-> << >>, pops |-> << >>, matches |-> << >>]

----------------------------------------------------------------------------
(* State *)

VARIABLES
    traces,        \* [Files -> TraceStatistics]: one object per trace file
    header_infos,  \* the ParentHeaderInfo objects: header_infos[g][n][h]
    stats,         \* the TotalStatistics object
    err,           \* the uncaught exception that ended the run, or NoError
    resolver,      \* [Files -> the local variables of the file's finish()]
    call,          \* the last call made: [op, file]
    loaded,        \* [Files -> the events load_event took without error
                   \*  and did not ignore, in arrival order]
    folded         \* [Files -> what process_file_stats was given and, once
                   \*  it returned, the file's aggregate as it merged it]

vars == << traces, header_infos, stats, err, resolver, call, loaded, folded >>

\* The objects an operation reads and writes, as one value.
World ==
    [ traces |-> traces, header_infos |-> header_infos, stats |-> stats,
      resolver |-> resolver, err |-> err ]

\* An uncaught exception: the run ends, what was written stays written.
Abort(W, error) == [W EXCEPT !.err = error]

ErrEventType == "Unexpected event type"
ErrPid == "Expected only one process"
ErrKeyError == "KeyError"
ErrDurType == "Attribute dur expected to be int"
ErrNonUnique == "Non-unique event"
ErrTid == "Expected only one thread for non-unique events"
ErrEventName == "Unexpected event name"
ErrDetailType == "Attribute args/detail expected to be str"
ErrTsType == "Attribute ts expected to be int"
ErrInconsistent == "Inconsistent event names for entity"
ErrDifferentEntities == "Trying to combine events for different entities"
ErrFinishTwice == "TraceStatistics::finish should be called only once"
ErrNesting == "Parent event appeared before child"

----------------------------------------------------------------------------
(* Entity.combine *)

HasEntity(entities, name) == entities[name] # NoEntity

SameKindUnchecked(self, event) == TRUE

\* The condition of the asserts of lines 79 and 203.
SameKind(self, event) == self.event_name = event.event_name

add_header_info_duration_only(self_header_info, header_info) ==
    ParentHeaderInfo(self_header_info.count,
                     self_header_info.duration + header_info.duration)

\* Lines 88-90 of Entity.combine: a bucket both entities have.
add_header_info(self_header_info, header_info) ==
    ParentHeaderInfo(self_header_info.count + header_info.count,
                     self_header_info.duration + header_info.duration)

\* Entity.combine(self, event), self being the Entity object of file sf
\* named sn.  Both asserts come before any write.  A header bucket the
\* two share by name is added into self's ParentHeaderInfo object; one
\* self lacks is taken over by reference.
combine(W, sf, sn, event) ==
    LET self == W.traces[sf].entities[sn]
        mine == self.parent_header_files
        theirs == event.parent_header_files
    IN  IF self.name # event.name THEN Abort(W, ErrDifferentEntities)
        ELSE IF ~ SameKind(self, event) THEN Abort(W, ErrInconsistent)
        ELSE [ W EXCEPT
                 !.traces[sf].entities[sn] =
                     [ self EXCEPT
                         !.duration = @ + event.duration,
                         !.parent_sources_info =
                             [ count |-> @.count + event.parent_sources_info.count,
                               duration |-> @.duration
                                            + event.parent_sources_info.duration ],
                         !.parent_header_files =
                             [ h \in Names |->
                                 IF theirs[h] # NoRef /\ mine[h] = NoRef
                                 THEN theirs[h] ELSE mine[h] ] ],
                 !.header_infos =
                     [ g \in Files |-> [ n \in Names |-> [ h \in Names |->
                         IF n = sn /\ theirs[h] # NoRef /\ mine[h] = g
                         THEN add_header_info(@[g][n][h], @[theirs[h]][n][h])
                         ELSE @[g][n][h] ] ] ] ]

----------------------------------------------------------------------------
(* TraceStatistics._add_event, _set_total, load_event *)

add_event_replacing(W, f, entity) ==
    IF HasEntity(W.traces[f].entities, entity.name)
    THEN [W EXCEPT !.traces[f].entities[entity.name] = entity]
    ELSE [ W EXCEPT !.traces[f].entities[entity.name] = entity,
                    !.traces[f].order = Append(@, entity.name) ]

add_event(W, f, entity) ==
    IF HasEntity(W.traces[f].entities, entity.name)
    THEN IF ~ SameKind(W.traces[f].entities[entity.name], entity)
         THEN Abort(W, ErrInconsistent)
         ELSE combine(W, f, entity.name, entity)
    ELSE [ W EXCEPT !.traces[f].entities[entity.name] = entity,
                    !.traces[f].order = Append(@, entity.name) ]

\* The total of a name counts as not yet set while it is 0.
TotalIsUnset(total, name) == total[name] = 0

set_total(W, f, name, duration) ==
    IF ~ TotalIsUnset(W.traces[f].total, name) THEN Abort(W, ErrNonUnique)
    ELSE [W EXCEPT !.traces[f].total[name] = duration]

HasAnyPid(event) == TRUE

\* The condition of the assert of line 139.
HasExpectedPid(event) == event.pid = EXPECTED_PID

IsIgnoredByType(event) == event.ph \in IGNORED_EVENT_TYPES

\* The early return of load_event (lines 141-143).
IsIgnored(event) ==
    \/ event.ph \in IGNORED_EVENT_TYPES
    \/ event.name \in IGNORED_EVENT_NAMES

OnAnyThread(event) == TRUE

\* The condition of the assert of line 152.
OnExpectedThread(event) == event.tid = EXPECTED_TID_FOR_NON_UNIQUE_EVENTS

AnyNameProcessed(event_name) == TRUE

\* The condition of the assert of line 154.
IsProcessedNonUnique(event_name) == event_name \in PROCESSED_NON_UNIQUE_EVENT_NAMES

\* The else branch of load_event: an occurrence (lines 152-169).  The
\* entity is added before ts is read, so a bad ts aborts after the add.
load_occurrence(W, f, event) ==
    IF ~ OnExpectedThread(event) THEN Abort(W, ErrTid)
    ELSE IF ~ IsProcessedNonUnique(event.name) THEN Abort(W, ErrEventName)
    ELSE IF event.detail_type = "missing" THEN Abort(W, ErrKeyError)
    ELSE IF event.detail_type # "str" THEN Abort(W, ErrDetailType)
    ELSE LET W1 == add_event(W, f, Entity(event.detail, event.name, event.dur))
         IN  IF W1.err # NoError \/ event.name # "Source" THEN W1
             ELSE IF event.ts_type = "missing" THEN Abort(W1, ErrKeyError)
             ELSE IF event.ts_type # "int" THEN Abort(W1, ErrTsType)
             ELSE [ W1 EXCEPT !.traces[f].time_infos =
                        Append(@, TimeInfo(event.detail, event.ts, event.dur)) ]

load_event(W, f, event) ==
    IF event.ph \notin EXPECTED_EVENT_TYPES THEN Abort(W, ErrEventType)
    ELSE IF ~ HasExpectedPid(event) THEN Abort(W, ErrPid)
    ELSE IF IsIgnored(event) THEN W
    ELSE IF event.dur_type = "missing" THEN Abort(W, ErrKeyError)
    ELSE IF event.dur_type # "int" THEN Abort(W, ErrDurType)
    ELSE IF event.name \in PROCESSED_UNIQUE_EVENT_NAMES
    THEN set_total(W, f, event.name, event.dur)
    ELSE load_occurrence(W, f, event)

----------------------------------------------------------------------------
(* TraceStatistics.finish *)

PopConditionStrict(time_info, waiting) == time_info.timestamp < waiting.timestamp

\* The condition of the while loop (line 179), the stack being non-empty.
PopCondition(time_info, waiting) == time_info.timestamp <= waiting.timestamp

EndsWithinFromStart(waiting, time_info) ==
    waiting.timestamp <= time_info.timestamp + time_info.duration

EndsWithinStrictly(waiting, time_info) ==
    waiting.timestamp + waiting.duration
        < time_info.timestamp + time_info.duration

\* The assert of line 181.
EndsWithin(waiting, time_info) ==
    waiting.timestamp + waiting.duration
        <= time_info.timestamp + time_info.duration

record_parent_duration(W, f, child, parent) ==
    LET waiting == W.traces[f].time_infos[child]
        time_info == W.traces[f].time_infos[parent]
        n == waiting.entity_name
        h == time_info.entity_name
        ref == W.traces[f].entities[n].parent_header_files[h]
        W1 == [W EXCEPT !.resolver[f].matches = Append(@, <<child, parent>>)]
    IN  IF ref # NoRef
        THEN [ W1 EXCEPT !.header_infos[ref][n][h] =
                   ParentHeaderInfo(@.count + 1, @.duration + time_info.duration) ]
        ELSE [ W1 EXCEPT !.header_infos[f][n][h] =
                             ParentHeaderInfo(1, time_info.duration),
                         !.traces[f].entities[n].parent_header_files[h] = f ]

\* Lines 184-191: the popped occurrence child gets the occurrence parent
\* as a parent header.
record_parent(W, f, child, parent) ==
    LET waiting == W.traces[f].time_infos[child]
        time_info == W.traces[f].time_infos[parent]
        n == waiting.entity_name
        h == time_info.entity_name
        ref == W.traces[f].entities[n].parent_header_files[h]
        W1 == [W EXCEPT !.resolver[f].matches = Append(@, <<child, parent>>)]
    IN  IF ref # NoRef
        THEN [ W1 EXCEPT !.header_infos[ref][n][h] =
                   ParentHeaderInfo(@.count + 1, @.duration + waiting.duration) ]
        ELSE [ W1 EXCEPT !.header_infos[f][n][h] =
                             ParentHeaderInfo(1, waiting.duration),
                         !.traces[f].entities[n].parent_header_files[h] = f ]

pop_waiting_once(W, f, cur) ==
    LET infos == W.traces[f].time_infos
        stack == W.resolver[f].waiting_entity_infos
        top == stack[Len(stack)]
    IN  IF stack = << >> THEN W
        ELSE IF ~ PopCondition(infos[cur], infos[top]) THEN W
        ELSE LET W1 == [ W EXCEPT
                           !.resolver[f].waiting_entity_infos =
                               SubSeq(stack, 1, Len(stack) - 1),
                           !.resolver[f].pops = Append(@, <<top, cur>>) ]
             IN  IF ~ EndsWithin(infos[top], infos[cur])
                 THEN Abort(W1, ErrNesting)
                 ELSE record_parent(W1, f, top, cur)

\* The while loop of lines 179-191 for the occurrence with index cur.
RECURSIVE pop_waiting(_, _, _)
pop_waiting(W, f, cur) ==
    LET infos == W.traces[f].time_infos
        stack == W.resolver[f].waiting_entity_infos
        top == stack[Len(stack)]
    IN  IF stack = << >> THEN W
        ELSE IF ~ PopCondition(infos[cur], infos[top]) THEN W
        ELSE LET W1 == [ W EXCEPT
                           !.resolver[f].waiting_entity_infos =
                               SubSeq(stack, 1, Len(stack) - 1),
                           !.resolver[f].pops = Append(@, <<top, cur>>) ]
             IN  IF ~ EndsWithin(infos[top], infos[cur])
                 THEN Abort(W1, ErrNesting)
                 ELSE pop_waiting(record_parent(W1, f, top, cur), f, cur)

RECURSIVE resolve_from_pushing_unpopped(_, _, _)
resolve_from_pushing_unpopped(W, f, cur) ==
    IF cur > Len(W.traces[f].time_infos) THEN W
    ELSE LET W1 == pop_waiting(W, f, cur)
         IN  IF W1.err # NoError THEN W1
             ELSE IF W1.resolver[f].pops # W.resolver[f].pops
             THEN resolve_from_pushing_unpopped(W1, f, cur + 1)
             ELSE resolve_from_pushing_unpopped(
                      [W1 EXCEPT !.resolver[f].waiting_entity_infos = Append(@, cur)],
                      f, cur + 1)

\* The for loop of lines 178-193, from the occurrence with index cur on.
RECURSIVE resolve_from(_, _, _)
resolve_from(W, f, cur) ==
    IF cur > Len(W.traces[f].time_infos) THEN W
    ELSE LET W1 == pop_waiting(W, f, cur)
         IN  IF W1.err # NoError THEN W1
             ELSE resolve_from(
                      [W1 EXCEPT !.resolver[f].waiting_entity_infos = Append(@, cur)],
                      f, cur + 1)

RECURSIVE count_sources_without_duration(_, _, _)
count_sources_without_duration(W, f, k) ==
    LET stack == W.resolver[f].waiting_entity_infos
        waiting == W.traces[f].time_infos[stack[k]]
    IN  IF k > Len(stack) THEN W
        ELSE count_sources_without_duration(
                 [ W EXCEPT
                     !.traces[f].entities[waiting.entity_name].parent_sources_info =
                         [count |-> @.count + 1, duration |-> @.duration] ],
                 f, k + 1)

\* The for loop of lines 195-198, from position k of the stack on.
RECURSIVE count_sources(_, _, _)
count_sources(W, f, k) ==
    LET stack == W.resolver[f].waiting_entity_infos
        waiting == W.traces[f].time_infos[stack[k]]
    IN  IF k > Len(stack) THEN W
        ELSE count_sources(
                 [ W EXCEPT
                     !.traces[f].entities[waiting.entity_name].parent_sources_info =
                         [ count |-> @.count + 1,
                           duration |-> @.duration + waiting.duration ] ],
                 f, k + 1)

NeverFinished(trace) == FALSE

\* The guard of finish (line 172).
AlreadyFinished(trace) == trace.finished

finish(W, f) ==
    IF AlreadyFinished(W.traces[f]) THEN Abort(W, ErrFinishTwice)
    ELSE LET W0 == [ W EXCEPT !.traces[f].finished = TRUE,
                              !.resolver[f] = InitResolver ]
             W1 == resolve_from(W0, f, 1)
         IN  IF W1.err # NoError THEN W1 ELSE count_sources(W1, f, 1)

----------------------------------------------------------------------------
(* TotalStatistics.process_file_stats *)

\* Lines 231-235, from position k of the file's dict on.
RECURSIVE merge_entities(_, _, _)
merge_entities(W, f, k) ==
    LET order == W.traces[f].order
        entity_name == order[k]
        owner == W.stats.entities[entity_name]
    IN  IF k > Len(order) THEN W
        ELSE IF owner # NoRef
        THEN LET W1 == combine(W, owner, entity_name,
                               W.traces[f].entities[entity_name])
             IN  IF W1.err # NoError THEN W1 ELSE merge_entities(W1, f, k + 1)
        ELSE merge_entities([W EXCEPT !.stats.entities[entity_name] = f], f, k + 1)

process_file_stats_merging_first(W, file_size, f) ==
    LET W0 == [ W EXCEPT !.stats.file_count = @ + 1,
                         !.stats.total_trace_file_size = @ + file_size ]
        W2 == [ W0 EXCEPT !.stats.total =
                    [n \in PROCESSED_UNIQUE_EVENT_NAMES |->
                        @[n] + W0.traces[f].total[n]] ]
        W3 == merge_entities(W2, f, 1)
    IN  IF W3.err # NoError THEN W3 ELSE finish(W3, f)

process_file_stats(W, file_size, f) ==
    LET W0 == [ W EXCEPT !.stats.file_count = @ + 1,
                         !.stats.total_trace_file_size = @ + file_size ]
        W1 == finish(W0, f)
        W2 == [ W1 EXCEPT !.stats.total =
                    [n \in PROCESSED_UNIQUE_EVENT_NAMES |->
                        @[n] + W1.traces[f].total[n]] ]
    IN  IF W1.err # NoError THEN W1 ELSE merge_entities(W2, f, 1)

----------------------------------------------------------------------------
(* What an object holds, references followed *)

HeaderView(W, n, entity) ==
    [ h \in Names |->
        IF entity.parent_header_files[h] = NoRef THEN ParentHeaderInfo(0, 0)
        ELSE W.header_infos[entity.parent_header_files[h]][n][h] ]

EntityView(W, g, n) ==
    LET entity == W.traces[g].entities[n]
    IN  [ event_name |-> entity.event_name,
          duration |-> entity.duration,
          parent_sources_info |-> entity.parent_sources_info,
          parent_header_files |-> HeaderView(W, n, entity) ]

AbsentView ==
    [ event_name |-> "", duration |-> 0,
      parent_sources_info |-> ParentSourcesInfo,
      parent_header_files |-> [h \in Names |-> ParentHeaderInfo(0, 0)] ]

\* f.entities as values.
FileView(W, f) ==
    [ n \in Names |->
        IF HasEntity(W.traces[f].entities, n) THEN EntityView(W, f, n)
        ELSE AbsentView ]

\* stats.entities as values.
TotalView(W) ==
    [ n \in Names |->
        IF W.stats.entities[n] = NoRef THEN AbsentView
        ELSE EntityView(W, W.stats.entities[n], n) ]

----------------------------------------------------------------------------
(* Events: one element of trace['traceEvents'] *)

MkEvent(ph, pid, name, tid, dur_type, dur, ts_type, ts, detail_type, detail) ==
    [ ph |-> ph, pid |-> pid, name |-> name, tid |-> tid,
      dur_type |-> dur_type, dur |-> dur, ts_type |-> ts_type, ts |-> ts,
      detail_type |-> detail_type, detail |-> detail ]

\* A well-formed occurrence event and a well-formed unique total event.
OccurrenceEvent(name, detail, ts, dur) ==
    MkEvent("X", EXPECTED_PID, name, EXPECTED_TID_FOR_NON_UNIQUE_EVENTS,
            "int", dur, "int", ts, "str", detail)

TotalEvent(name, dur) ==
    MkEvent("X", EXPECTED_PID, name, 1, "int", dur, "int", 0, "missing", "")

\* The header parses of one file, for the resolver.
NestEvents ==
    { OccurrenceEvent("Source", n, ts, dur) :
        n \in Names, ts \in 0 .. MaxTs, dur \in 0 .. MaxDur }

\* The events of scenario A: header parses and one of the unique totals.
ScenarioEvents ==
    NestEvents \cup { TotalEvent("Total ExecuteCompiler", dur) : dur \in 0 .. MaxDur }

\* The events of the files that are folded.
FoldTotalNames == { "Total Source" }
FoldFunctionNames == { "a.h" }

FoldEvents ==
    { OccurrenceEvent("Source", n, ts, dur) :
        n \in Names, ts \in 0 .. MaxFoldTime, dur \in 1 .. MaxFoldTime + 1 }
    \cup { OccurrenceEvent("InstantiateFunction", n, 0, dur) :
             n \in FoldFunctionNames, dur \in 1 .. MaxFoldTime + 1 }
    \cup { TotalEvent(n, dur) : n \in FoldTotalNames, dur \in 0 .. MaxFoldTime }

\* The events of the files of a whole run: header parses that all start
\* with the file, and an instantiation.
RunEvents ==
    { OccurrenceEvent("Source", n, 0, 1) : n \in Names }
    \cup { OccurrenceEvent("InstantiateFunction", n, 0, 1) : n \in FoldFunctionNames }

\* Events of every shape for the classifier, ill-formed ones included.
ClassifyNames ==
    { "Frontend", "Total Frontend", "Total Source", "Source",
      "InstantiateFunction", "InstantiateClass", "SomeFutureCompilerPass" }

\* <<type of dur, dur, type of ts, type of args/detail>>: all three well
\* typed, or one of them ill typed or missing.
ClassifyShapes ==
    { <<"int", d, "int", "str">> : d \in 0 .. MaxClassifyDur }
    \cup { <<t, 0, "int", "str">> : t \in JsonTypes \ {"int"} }
    \cup { <<"int", 0, t, "str">> : t \in JsonTypes \ {"int"} }
    \cup { <<"int", 0, "int", t>> : t \in JsonTypes \ {"str"} }

ClassifyEvents ==
    { MkEvent(ph, pid, name, tid, shape[1], shape[2], shape[3], 0, shape[4],
              IF shape[4] = "str" THEN "a.h" ELSE "") :
        ph \in { "M", "X", "B" }, pid \in { EXPECTED_PID, 2 },
        name \in ClassifyNames,
        tid \in { EXPECTED_TID_FOR_NON_UNIQUE_EVENTS, 1 },
        shape \in ClassifyShapes }

----------------------------------------------------------------------------
(* The operations *)

Init ==
    /\ traces = [f \in Files |-> InitTraceStatistics]
    /\ header_infos =
           [g \in Files |-> [n \in Names |-> [h \in Names |->
               ParentHeaderInfo(0, 0)]]]
    /\ stats = InitTotalStatistics
    /\ err = NoError
    /\ resolver = [f \in Files |-> InitResolver]
    /\ call = [op |-> "init", file |-> 0]
    /\ loaded = [f \in Files |-> << >>]
    /\ folded = [f \in Files |->
                    [ done |-> FALSE, size |-> 0, total |-> InitTotal,
                      entities |-> [n \in Names |-> AbsentView] ]]

Commit(W) ==
    /\ traces' = W.traces
    /\ header_infos' = W.header_infos
    /\ stats' = W.stats
    /\ resolver' = W.resolver
    /\ err' = W.err

\* f.load_event(event).  load_trace loads every event of a file before
\* the object is handed to process_file_stats (lines 285-305), so a
\* finished file gets no more events; max bounds the events a file holds.
LoadEvent(f, event, max) ==
    /\ err = NoError
    /\ ~ traces[f].finished
    /\ Len(loaded[f]) < max
    /\ LET W == load_event(World, f, event)
       IN  /\ Commit(W)
           /\ loaded' = [ loaded EXCEPT ![f] =
                            IF W.err = NoError /\ ~ IsIgnored(event)
                            THEN Append(@, event) ELSE @ ]
    /\ call' = [op |-> "load_event", file |-> f]
    /\ UNCHANGED folded

\* f.finish(), called on its own.
Finish(f) ==
    /\ err = NoError
    /\ Commit(finish(World, f))
    /\ call' = [op |-> "finish", file |-> f]
    /\ UNCHANGED << loaded, folded >>

\* stats.process_file_stats(file_size, f).
ProcessFileStats(f, file_size) ==
    /\ err = NoError
    /\ LET W == process_file_stats(World, file_size, f)
       IN  /\ Commit(W)
           /\ folded' = [ folded EXCEPT ![f] =
                            IF W.err # NoError THEN @
                            ELSE [ done |-> TRUE, size |-> file_size,
                                   total |-> W.traces[f].total,
                                   entities |-> FileView(W, f) ] ]
    /\ call' = [op |-> "process_file_stats", file |-> f]
    /\ UNCHANGED loaded

\* The trace files, loaded and folded in any order.
Next ==
    \E f \in Files :
        \/ \E event \in FoldEvents : LoadEvent(f, event, MaxEvents)
        \/ \E file_size \in 1 .. MaxFileSize : ProcessFileStats(f, file_size)

Spec == Init /\ [][Next]_vars

\* One file of header parses and its resolver.
NextNest ==
    \/ \E event \in NestEvents : LoadEvent(1, event, MaxOcc)
    \/ Finish(1)

SpecNest == Init /\ [][NextNest]_vars

\* One file of header parses and unique totals, and its resolver.
NextScenario ==
    \/ \E event \in ScenarioEvents : LoadEvent(1, event, MaxOcc)
    \/ Finish(1)

SpecScenario == Init /\ [][NextScenario]_vars

\* One file whose resolver is called, on its own or by the fold, any
\* number of times.
NextMisuse ==
    \/ \E event \in NestEvents : LoadEvent(1, event, MaxMisuseOcc)
    \/ Finish(1)
    \/ \E file_size \in 1 .. MaxFileSize : ProcessFileStats(1, file_size)

SpecMisuse == Init /\ [][NextMisuse]_vars

\* The file the loop of load_traces (line 297) is at: the files before it
\* have been folded.
CurrentFile == stats.file_count + 1

\* os.path.getsize(trace): a trace file is as long as its events make it.
FileSize(f) == Len(loaded[f]) + 1

\* A run of load_traces: file after file, load_trace passes the events of
\* the file to load_event, then the file is folded (lines 297-303).
NextRun ==
    \E f \in Files :
        /\ f = CurrentFile
        /\ \/ \E event \in RunEvents : LoadEvent(f, event, MaxEvents)
           \/ ProcessFileStats(f, FileSize(f))

SpecRun == Init /\ [][NextRun]_vars

\* One file and the classifier.
NextClassify == \E event \in ClassifyEvents : LoadEvent(1, event, MaxClassified)

SpecClassify == Init /\ [][NextClassify]_vars

----------------------------------------------------------------------------
(* Header parses as intervals *)

Start(info) == info.timestamp
End(info) == info.timestamp + info.duration

RECURSIVE SumDuration(_, _)
\* The durations of the occurrences of infos with an index in S, summed.
SumDuration(infos, S) ==
    IF S = {} THEN 0
    ELSE LET i == CHOOSE x \in S : TRUE
         IN  infos[i].duration + SumDuration(infos, S \ {i})

\* parent[i] is the index of the tree parent of occurrence i, 0 for a root.
ParentMaps(infos) == [1 .. Len(infos) -> 0 .. Len(infos)]

\* infos lists, in completion order, a forest of nested intervals whose
\* tree is parent: a child comes before its parent and lies within it, the
\* subtree of a node is the block that ends at the node, and siblings (and
\* roots) come in time order without overlap.
IsForest(infos, parent) ==
    LET I == 1 .. Len(infos)
    IN  /\ \A i \in I : parent[i] = 0 \/ parent[i] > i
        /\ \A i \in I : parent[i] # 0 =>
               /\ Start(infos[parent[i]]) <= Start(infos[i])
               /\ End(infos[i]) <= End(infos[parent[i]])
        /\ \A i, j \in I : i < j /\ parent[i] > j =>
               parent[j] # 0 /\ parent[j] <= parent[i]
        /\ \A i, j \in I : i < j /\ parent[i] = parent[j] =>
               End(infos[i]) <= Start(infos[j])

\* No sibling (or root) starts at the timestamp its predecessor started at,
\* which only a predecessor of zero duration allows.
SiblingsStartApart(infos, parent) ==
    \A i, j \in 1 .. Len(infos) :
        i < j /\ parent[i] = parent[j] => Start(infos[i]) < Start(infos[j])

\* The entities of file f hold exactly the attribution the tree asks for:
\* each non-root occurrence counted once, with its duration, in the bucket
\* of its parent's name, each root once in parent_sources_info.
AttributedAs(f, parent) ==
    LET infos == traces[f].time_infos
        I == 1 .. Len(infos)
        view == FileView(World, f)
    IN  \A n \in Names :
          LET roots == { i \in I : infos[i].entity_name = n /\ parent[i] = 0 }
          IN  /\ view[n].parent_sources_info =
                    [count |-> Cardinality(roots), duration |-> SumDuration(infos, roots)]
              /\ \A h \in Names :
                   LET under == { i \in I : /\ infos[i].entity_name = n
                                             /\ parent[i] # 0
                                             /\ infos[parent[i]].entity_name = h }
                   IN  view[n].parent_header_files[h] =
                           ParentHeaderInfo(Cardinality(under), SumDuration(infos, under))

\* C1 as claimed: finish() attributes every occurrence of every completion-
\* order listing of a forest of nested intervals to its tree parent (or to
\* the source file, for a root), shared start timestamps and zero durations
\* included.
C1_AnyForestAttributed ==
    traces[1].finished =>
        \A parent \in ParentMaps(traces[1].time_infos) :
            IsForest(traces[1].time_infos, parent) =>
                err # ErrNesting /\ AttributedAs(1, parent)

\* C1, amended: finish() attributes every occurrence of a completion-order
\* listing of a forest of nested intervals to its tree parent (or to the
\* source file, for a root), provided no sibling or root starts at the very
\* timestamp at which the sibling or root before it started.
C1_ForestAttributed ==
    traces[1].finished =>
        \A parent \in ParentMaps(traces[1].time_infos) :
            /\ IsForest(traces[1].time_infos, parent)
            /\ SiblingsStartApart(traces[1].time_infos, parent)
            => err # ErrNesting /\ AttributedAs(1, parent)

\* Two siblings under a parent that starts with the first of them, resolved.
C1_Witness ==
    /\ traces[1].finished
    /\ err = NoError
    /\ Len(traces[1].time_infos) = 3
    /\ Start(traces[1].time_infos[1]) = Start(traces[1].time_infos[3])
    /\ traces[1].time_infos[1].entity_name # traces[1].time_infos[3].entity_name
    /\ IsForest(traces[1].time_infos, <<3, 3, 0>>)
    /\ SiblingsStartApart(traces[1].time_infos, <<3, 3, 0>>)
    /\ AttributedAs(1, <<3, 3, 0>>)

----------------------------------------------------------------------------
(* Folds *)

RECURSIVE SumOver(_, _)
\* The values of the function fn at the elements of S, summed.
SumOver(fn, S) ==
    IF S = {} THEN 0
    ELSE LET x == CHOOSE y \in S : TRUE
         IN  fn[x] + SumOver(fn, S \ {x})

\* The files process_file_stats has folded.
FoldedFiles == { f \in Files : folded[f].done }

\* The folded files whose aggregate has an entity named n.
FoldedWith(n) == { f \in FoldedFiles : folded[f].entities[n] # AbsentView }

\* The occurrences named n among the events file f loaded.
OccurrencesOf(f, n) ==
    { i \in 1 .. Len(loaded[f]) :
        /\ loaded[f][i].name \in PROCESSED_NON_UNIQUE_EVENT_NAMES
        /\ loaded[f][i].detail = n }

\* C2: whatever the order in which the files were folded, the process-wide
\* aggregate is the same function of the set of per-file aggregates: the
\* six totals, file_count and total_trace_file_size are their sums, the
\* entity names are the union of theirs, and each entity has their
\* event_name and the sums of their durations, of their parent_sources_info
\* and, header by header, of their parent_header_files.
C2_FoldOrderFree ==
    err = NoError =>
        /\ stats.file_count = Cardinality(FoldedFiles)
        /\ stats.total_trace_file_size =
               SumOver([f \in Files |-> folded[f].size], FoldedFiles)
        /\ \A t \in PROCESSED_UNIQUE_EVENT_NAMES :
               stats.total[t] = SumOver([f \in Files |-> folded[f].total[t]], FoldedFiles)
        /\ \A n \in Names :
             LET view == TotalView(World)[n]
                 from == FoldedWith(n)
                 part(f) == folded[f].entities[n]
             IN  IF from = {} THEN stats.entities[n] = NoRef
                 ELSE /\ stats.entities[n] # NoRef
                      /\ \A f \in from : view.event_name = part(f).event_name
                      /\ view.duration = SumOver([f \in Files |-> part(f).duration], from)
                      /\ view.parent_sources_info =
                           [ count |->
                               SumOver([f \in Files |-> part(f).parent_sources_info.count], from),
                             duration |->
                               SumOver([f \in Files |-> part(f).parent_sources_info.duration], from) ]
                      /\ \A h \in Names :
                           view.parent_header_files[h] =
                             ParentHeaderInfo(
                               SumOver([f \in Files |-> part(f).parent_header_files[h].count], from),
                               SumOver([f \in Files |-> part(f).parent_header_files[h].duration], from))

\* Two files that both have "a.h" under the header "b.h", folded second
\* file first.
C2_Witness ==
    /\ err = NoError
    /\ FoldedFiles = {1, 2}
    /\ stats.entities["a.h"] = 2
    /\ folded[1].entities["a.h"].parent_header_files["b.h"].count = 1
    /\ folded[2].entities["a.h"].parent_header_files["b.h"].count = 1
    /\ TotalView(World)["a.h"].parent_header_files["b.h"].count = 2

\* C8: after any sequence of folds, each process-wide entity's duration is
\* the sum of the durations of all the occurrences of its name in the
\* folded files, each process-wide total is the sum of the per-file
\* totals, and file_count is the number of files folded.
C8_NothingLostOrDoubled ==
    err = NoError =>
        /\ stats.file_count = Cardinality(FoldedFiles)
        /\ \A t \in PROCESSED_UNIQUE_EVENT_NAMES :
               stats.total[t] = SumOver([f \in Files |-> traces[f].total[t]], FoldedFiles)
        /\ \A n \in Names :
               TotalView(World)[n].duration =
                   SumOver([f \in Files |->
                               SumOver([i \in 1 .. Len(loaded[f]) |-> loaded[f][i].dur],
                                       OccurrencesOf(f, n))],
                           FoldedFiles)

\* Two files with instantiations of the same name, one of duration 1 and
\* the other two of duration 2 and 1, give a process-wide entity of
\* duration 4.
C8_Witness ==
    /\ err = NoError
    /\ FoldedFiles = {1, 2}
    /\ \E f, g \in Files :
         /\ f # g
         /\ Cardinality(OccurrencesOf(f, "a.h")) = 1
         /\ Cardinality(OccurrencesOf(g, "a.h")) = 2
         /\ loaded[f][1].name = "InstantiateFunction" /\ loaded[f][1].dur = 1
         /\ loaded[g][1].name = "InstantiateFunction" /\ loaded[g][1].dur = 2
         /\ loaded[g][2].dur = 1
    /\ TotalView(World)["a.h"].duration = 4
    /\ stats.file_count = 2

----------------------------------------------------------------------------
(* The classifier *)

\* The unique total events among the events file f loaded.
TotalsOf(f, t) == { i \in 1 .. Len(loaded[f]) : loaded[f][i].name = t }

\* C3 as claimed: a second event with the name of a unique total is never
\* taken (load_event aborts on it), whatever the two durations, so a file
\* never holds two loaded events of one unique total name, and the stored
\* total is the duration of the first.
C3_DuplicateTotalRejected ==
    \A t \in PROCESSED_UNIQUE_EVENT_NAMES :
        /\ Cardinality(TotalsOf(1, t)) <= 1
        /\ \A i \in TotalsOf(1, t) : traces[1].total[t] = loaded[1][i].dur

\* An event of phase X and the expected pid whose name is in no table.
IsUnrecognized(event) ==
    /\ event.ph = "X"
    /\ event.pid = EXPECTED_PID
    /\ event.name \notin IGNORED_EVENT_NAMES
    /\ event.name \notin PROCESSED_UNIQUE_EVENT_NAMES
    /\ event.name \notin PROCESSED_NON_UNIQUE_EVENT_NAMES

\* C6: load_event of an event whose name is in none of the three tables
\* aborts, whatever its tid, dur and args, and leaves the totals, the
\* entities and the pending header parses of the file as they were; the
\* event is neither dropped silently nor recorded.
C6_ClosedWorld ==
    [][ \A event \in ClassifyEvents :
            IsUnrecognized(event) /\ LoadEvent(1, event, MaxClassified) =>
                /\ err' # NoError
                /\ traces' = traces
                /\ header_infos' = header_infos
                /\ loaded' = loaded ]_vars

\* An unrecognized name got as far as the name check and was refused.
C6_Witness ==
    /\ err = ErrEventName
    /\ Len(loaded[1]) = 1
    /\ traces[1].order = << "a.h" >>

----------------------------------------------------------------------------
(* The resolver *)

\* Occurrence i is still on the stack when occurrence j arrives: no
\* occurrence between them started at or before the start of i.
Pending(infos, i, j) ==
    /\ i < j
    /\ \A k \in (i + 1) .. (j - 1) : Start(infos[k]) > Start(infos[i])

\* The matches of the resolver with a child named n under a header named h.
MatchedChildren(f, n, h) ==
    LET infos == traces[f].time_infos
        matches == resolver[f].matches
    IN  { matches[m][1] : m \in { k \in 1 .. Len(matches) :
                                    /\ infos[matches[k][1]].entity_name = n
                                    /\ infos[matches[k][2]].entity_name = h } }

\* C4: every pop is of a pending top that starts no earlier than cur; a
\* popped top that ends after cur makes finish() abort with the nesting
\* error at that pop, without a match or a bucket for it; and no bucket is
\* ever recorded for a child that ends after its parent: the buckets hold
\* the recorded matches and nothing else, each with the child within the
\* parent.
C4_OutlivingChildAborts ==
    LET infos == traces[1].time_infos
        pops == resolver[1].pops
        matches == resolver[1].matches
    IN  traces[1].finished =>
          /\ \A k \in 1 .. Len(pops) :
               LET top == infos[pops[k][1]]
                   cur == infos[pops[k][2]]
               IN  /\ Start(cur) <= Start(top)
                   /\ End(top) > End(cur) =>
                        /\ err = ErrNesting
                        /\ k = Len(pops)
                        /\ \A m \in 1 .. Len(matches) : matches[m] # pops[k]
                   /\ End(top) <= End(cur) =>
                        \E m \in 1 .. Len(matches) : matches[m] = pops[k]
          /\ \A m \in 1 .. Len(matches) :
               /\ End(infos[matches[m][1]]) <= End(infos[matches[m][2]])
               /\ \E k \in 1 .. Len(pops) : pops[k] = matches[m]
          /\ \A n, h \in Names :
               FileView(World, 1)[n].parent_header_files[h] =
                   ParentHeaderInfo(Cardinality(MatchedChildren(1, n, h)),
                                    SumDuration(infos, MatchedChildren(1, n, h)))

\* The resolver aborted on its second pop, the first one matched.
C4_Witness ==
    /\ err = ErrNesting
    /\ Len(resolver[1].pops) = 2
    /\ Len(resolver[1].matches) = 1
    /\ \E n, h \in Names : FileView(World, 1)[n].parent_header_files[h].count = 1

\* The occurrences of the file's pending list named n.
HeaderParsesOf(f, n) ==
    { i \in 1 .. Len(traces[f].time_infos) : traces[f].time_infos[i].entity_name = n }

\* C5: a call of finish() on a finished file, made directly or by
\* process_file_stats, aborts with the misuse error and leaves the file's
\* entities, totals and pending list (and every header bucket) as they
\* were; so no entity is ever attributed more occurrences than the file has.
C5_FinishOnlyOnce ==
    /\ [] ( \A n \in Names :
              LET view == FileView(World, 1)[n]
              IN  view.parent_sources_info.count
                    + SumOver([h \in Names |-> view.parent_header_files[h].count], Names)
                  <= Cardinality(HeaderParsesOf(1, n)) )
    /\ [][ \A f \in Files :
             /\ traces[f].finished
             /\ call'.op \in { "finish", "process_file_stats" }
             /\ call'.file = f
             => /\ err' = ErrFinishTwice
                /\ traces' = traces
                /\ header_infos' = header_infos
                /\ resolver' = resolver
                /\ stats'.total = stats.total
                /\ stats'.entities = stats.entities ]_vars

\* The fold was given a file whose resolver had run, with matches made.
C5_Witness ==
    /\ err = ErrFinishTwice
    /\ call = [op |-> "process_file_stats", file |-> 1]
    /\ Len(resolver[1].matches) = 1
    /\ Len(resolver[1].waiting_entity_infos) = 1

\* The only header parses of the file are a then b, of different names, b
\* starting no later than a and ending no earlier.
IsScenarioA(infos) ==
    /\ Len(infos) = 2
    /\ infos[1].entity_name # infos[2].entity_name
    /\ Start(infos[2]) <= Start(infos[1])
    /\ End(infos[1]) <= End(infos[2])

\* C9: in a file whose only header parses are a then b, b starting no later
\* and ending no earlier than a, finish() succeeds and leaves a with the one
\* bucket {b: 1, a.dur} and no source count, b with no bucket and the
\* source count (1, b.dur), and each unique total is the duration of the
\* file's events of that name.
C9_ScenarioA ==
    LET infos == traces[1].time_infos
        a == infos[1]
        b == infos[2]
        view == FileView(World, 1)
    IN  traces[1].finished /\ IsScenarioA(infos) =>
          /\ err # ErrNesting
          /\ view[a.entity_name].parent_header_files =
                 [ h \in Names |-> IF h = b.entity_name
                                   THEN ParentHeaderInfo(1, a.duration)
                                   ELSE ParentHeaderInfo(0, 0) ]
          /\ view[a.entity_name].parent_sources_info.count = 0
          /\ view[b.entity_name].parent_header_files =
                 [h \in Names |-> ParentHeaderInfo(0, 0)]
          /\ view[b.entity_name].parent_sources_info =
                 [count |-> 1, duration |-> b.duration]
          /\ \A t \in PROCESSED_UNIQUE_EVENT_NAMES :
                 traces[1].total[t] =
                     SumOver([i \in 1 .. Len(loaded[1]) |-> loaded[1][i].dur],
                             TotalsOf(1, t))

\* Scenario A with both headers starting at 0, b the longer, and a total.
C9_Witness ==
    /\ traces[1].finished
    /\ err = NoError
    /\ IsScenarioA(traces[1].time_infos)
    /\ traces[1].time_infos[1] = TimeInfo("a.h", 0, 0)
    /\ traces[1].time_infos[2] = TimeInfo("b.h", 0, 1)
    /\ traces[1].total["Total ExecuteCompiler"] = 1
    /\ FileView(World, 1)["a.h"].parent_header_files["b.h"].count = 1

\* Two intervals that share at most an end point.
Disjoint(x, y) == End(x) <= Start(y) \/ End(y) <= Start(x)

\* The interval of y lies within the interval of x.
Contains(x, y) == Start(x) <= Start(y) /\ End(y) <= End(x)

\* C10 as claimed: whenever an occurrence is neither disjoint from nor a
\* container of an earlier occurrence that is still pending, finish()
\* aborts with the nesting error.
C10_EveryViolationFatal ==
    LET infos == traces[1].time_infos
    IN  traces[1].finished =>
          ( ( \E i, j \in 1 .. Len(infos) :
                /\ Pending(infos, i, j)
                /\ ~ Disjoint(infos[i], infos[j])
                /\ ~ Contains(infos[j], infos[i]) )
            => err = ErrNesting )

\* C10, amended: finish() aborts with the nesting error exactly when some
\* occurrence starts at or before the start of an earlier occurrence that
\* is still pending and ends before it; an occurrence that starts strictly
\* inside a pending interval is not checked against it.
C10_LocalViolationFatal ==
    LET infos == traces[1].time_infos
    IN  traces[1].finished =>
          ( err = ErrNesting
            <=> \E i, j \in 1 .. Len(infos) :
                  /\ Pending(infos, i, j)
                  /\ Start(infos[j]) <= Start(infos[i])
                  /\ End(infos[i]) > End(infos[j]) )

\* A violation two pops deep: the third occurrence pops the second, which
\* fits, and then the first, which outlives it.
C10_Witness ==
    /\ err = ErrNesting
    /\ Len(traces[1].time_infos) = 3
    /\ resolver[1].pops = << <<2, 3>>, <<1, 3>> >>

----------------------------------------------------------------------------
(* Kinds *)

\* C7: an entity never changes its event_name, in a file or process-wide;
\* a file never holds occurrences of one name under two kinds (load_event
\* aborts on the second kind), the fold of a file whose entity has another
\* kind than the process-wide entity of its name aborts, and so every
\* entity, of a file or process-wide, has the kind of all it accumulated.
C7_SingleKind ==
    /\ [] ( /\ \A f \in Files : \A n \in Names : \A i \in OccurrencesOf(f, n) :
                  loaded[f][i].name = traces[f].entities[n].event_name
            /\ \A n \in Names : \A f \in FoldedWith(n) :
                  folded[f].entities[n].event_name = TotalView(World)[n].event_name )
    /\ [][ /\ \A f \in Files : \A n \in Names :
                HasEntity(traces[f].entities, n) =>
                    traces'[f].entities[n].event_name = traces[f].entities[n].event_name
           /\ \A n \in Names :
                stats.entities[n] # NoRef =>
                    /\ stats'.entities[n] # NoRef
                    /\ TotalView(World)'[n].event_name = TotalView(World)[n].event_name
           /\ \A f \in Files :
                /\ call'.op = "process_file_stats"
                /\ call'.file = f
                /\ \E n \in Names :
                     /\ HasEntity(traces[f].entities, n)
                     /\ stats.entities[n] # NoRef
                     /\ traces[f].entities[n].event_name
                            # TotalView(World)[n].event_name
                => err' # NoError ]_vars

\* The fold of the second file met an entity of another kind.
C7_Witness ==
    /\ err = ErrInconsistent
    /\ call.op = "process_file_stats"
    /\ stats.file_count = 2
    /\ \E f, g \in Files :
         /\ HasEntity(traces[f].entities, "a.h")
         /\ HasEntity(traces[g].entities, "a.h")
         /\ traces[f].entities["a.h"].event_name = "Source"
         /\ traces[g].entities["a.h"].event_name = "InstantiateFunction"

----------------------------------------------------------------------------
(* The fold as one step *)

\* C11 as claimed: a process_file_stats that aborts leaves the
\* TotalStatistics as it was before the call: file_count,
\* total_trace_file_size, the six totals and every field of every entity.
C11_FoldAllOrNothing ==
    [][ call'.op = "process_file_stats" /\ err' # NoError =>
            /\ stats' = stats
            /\ TotalView(World)' = TotalView(World) ]_vars

----------------------------------------------------------------------------
(* A run of load_traces *)

\* The occurrences named n the resolver of file f left on its stack.
RootsOf(f, n) ==
    LET stack == resolver[f].waiting_entity_infos
    IN  { stack[k] : k \in { i \in 1 .. Len(stack) :
                               traces[f].time_infos[stack[i]].entity_name = n } }

\* The resolver of file f has run over all the header parses of the file.
ResolvedAll(f) ==
    /\ traces[f].finished
    /\ Len(resolver[f].waiting_entity_infos) + Len(resolver[f].matches)
           = Len(traces[f].time_infos)

\* C12: in a run of load_traces the resolver of a file runs once, never a
\* second time, after the last event of the file and before anything of
\* the file is merged: a file with a total or an entity in the process-wide
\* aggregate has been resolved over all its header parses, a resolved file
\* gets no more events and no second resolver run, and the process-wide
\* parent_sources_info and parent_header_files are the sums of what the
\* resolvers of the folded files found.
C12_ResolvedOnceBeforeMerge ==
    /\ [] ( /\ err # ErrFinishTwice
            /\ \A f \in Files :
                 ( folded[f].done \/ \E n \in Names : stats.entities[n] = f )
                     => ResolvedAll(f)
            /\ \A f \in Files : traces[f].finished => f < CurrentFile
            /\ err = NoError =>
                 \A n \in Names :
                   LET view == TotalView(World)[n]
                   IN  /\ view.parent_sources_info =
                            [ count |->
                                SumOver([f \in Files |-> Cardinality(RootsOf(f, n))],
                                        FoldedFiles),
                              duration |->
                                SumOver([f \in Files |->
                                           SumDuration(traces[f].time_infos, RootsOf(f, n))],
                                        FoldedFiles) ]
                       /\ \A h \in Names :
                            view.parent_header_files[h] =
                              ParentHeaderInfo(
                                SumOver([f \in Files |->
                                           Cardinality(MatchedChildren(f, n, h))],
                                        FoldedFiles),
                                SumOver([f \in Files |->
                                           SumDuration(traces[f].time_infos,
                                                       MatchedChildren(f, n, h))],
                                        FoldedFiles)) )
    /\ [][ \A f \in Files :
             traces[f].finished =>
                 /\ loaded'[f] = loaded[f]
                 /\ traces'[f].time_infos = traces[f].time_infos
                 /\ traces'[f].total = traces[f].total
                 /\ resolver'[f] = resolver[f]
                 /\ call'.file # f ]_vars

\* Both files have "a.h" under "b.h", resolved in each before its fold.
C12_Witness ==
    /\ err = NoError
    /\ call = [op |-> "process_file_stats", file |-> 2]
    /\ FoldedFiles = {1, 2}
    /\ \A f \in {1, 2} : Cardinality(MatchedChildren(f, "a.h", "b.h")) = 1
    /\ TotalView(World)["a.h"].parent_header_files["b.h"] = ParentHeaderInfo(2, 2)
    /\ TotalView(World)["b.h"].parent_sources_info = [count |-> 2, duration |-> 2]

----------------------------------------------------------------------------
(* The classifier: threads, ignored events, phases and process ids *)

\* load_event(event) on the first file, as it is now, would leave W.
AfterLoadEvent(event) == load_event(World, 1, event)

\* W has the totals, the entities and the pending header parses of every
\* file, and every header bucket, as they are now.
Untouched(W) ==
    /\ W.traces = traces
    /\ W.header_infos = header_infos

\* C13 as claimed: load_event of any event named 'Source',
\* 'InstantiateFunction' or 'InstantiateClass' with a thread id other than
\* 0 aborts and leaves the entities and the pending list as they were.
C13_OffThreadOccurrenceAborts ==
    err = NoError =>
        \A event \in ClassifyEvents :
            /\ event.name \in PROCESSED_NON_UNIQUE_EVENT_NAMES
            /\ event.tid # EXPECTED_TID_FOR_NON_UNIQUE_EVENTS
            => /\ AfterLoadEvent(event).err # NoError
               /\ Untouched(AfterLoadEvent(event))

\* C13, amended: load_event of an event named 'Source',
\* 'InstantiateFunction' or 'InstantiateClass' with a thread id other than
\* 0 never creates or updates an entity and never appends to the pending
\* list, and it aborts unless the event has the metadata phase 'M' (and
\* the expected pid), which is discarded without error; an event of phase
\* 'X' and the expected pid that names a unique total not yet set, with an
\* integer dur, is taken whatever its thread id.
C13_OffThreadNeverAnOccurrence ==
    err = NoError =>
        \A event \in ClassifyEvents :
            /\ /\ event.name \in PROCESSED_NON_UNIQUE_EVENT_NAMES
               /\ event.tid # EXPECTED_TID_FOR_NON_UNIQUE_EVENTS
               => /\ Untouched(AfterLoadEvent(event))
                  /\ AfterLoadEvent(event).err = NoError
                       <=> event.ph = "M" /\ event.pid = EXPECTED_PID
            /\ /\ event.name \in PROCESSED_UNIQUE_EVENT_NAMES
               /\ event.ph = "X"
               /\ event.pid = EXPECTED_PID
               /\ event.dur_type = "int"
               /\ traces[1].total[event.name] = 0
               => /\ AfterLoadEvent(event).err = NoError
                  /\ AfterLoadEvent(event).traces[1].total[event.name] = event.dur

\* An occurrence on another thread was refused after one was taken.
C13_Witness ==
    /\ err = ErrTid
    /\ traces[1].order = << "a.h" >>
    /\ Len(loaded[1]) = 1

\* C14 as claimed: load_event of any event with the expected pid and the
\* phase 'M' or an ignored name returns without error and leaves the
\* totals, the entities and the pending list as they were.
C14_IgnoredEventsDiscarded ==
    err = NoError =>
        \A event \in ClassifyEvents :
            /\ event.pid = EXPECTED_PID
            /\ event.ph = "M" \/ event.name \in IGNORED_EVENT_NAMES
            => /\ AfterLoadEvent(event).err = NoError
               /\ Untouched(AfterLoadEvent(event))

\* C14, amended: load_event of an event with the expected pid and either
\* the phase 'M', or an ignored name and the phase 'X', returns without
\* error and leaves the totals, the entities and the pending list as they
\* were, whatever its dur, tid, ts and args are.
C14_IgnoredExpectedEventsDiscarded ==
    err = NoError =>
        \A event \in ClassifyEvents :
            /\ event.pid = EXPECTED_PID
            /\ event.ph \in EXPECTED_EVENT_TYPES
            /\ event.ph = "M" \/ event.name \in IGNORED_EVENT_NAMES
            => /\ AfterLoadEvent(event).err = NoError
               /\ Untouched(AfterLoadEvent(event))

\* load_event was called, without error, and the file holds nothing.
C14_Witness ==
    /\ call = [op |-> "load_event", file |-> 1]
    /\ err = NoError
    /\ loaded[1] = << >>
    /\ traces[1] = InitTraceStatistics

\* C15: load_event of any event whose phase is not 'M' or 'X', or whose
\* pid is not 1, aborts with the phase or pid error, metadata events and
\* ignored names included, and leaves the totals, the entities and the
\* pending list as they were.
C15_PhaseAndPidFirst ==
    err = NoError =>
        \A event \in ClassifyEvents :
            event.ph \notin EXPECTED_EVENT_TYPES \/ event.pid # EXPECTED_PID
            => /\ AfterLoadEvent(event).err =
                      IF event.ph \notin EXPECTED_EVENT_TYPES
                      THEN ErrEventType ELSE ErrPid
               /\ Untouched(AfterLoadEvent(event))

\* An event of another process was refused after an occurrence was taken.
C15_Witness ==
    /\ err = ErrPid
    /\ traces[1].order = << "a.h" >>
    /\ Len(loaded[1]) = 1

----------------------------------------------------------------------------
(* Conservation *)

\* An entity, given as values, attributes count occurrences and all of its
\* duration if it is a header parse, and nothing if it is an instantiation.
Conserves(view, count) ==
    /\ view.event_name = "Source" =>
         /\ view.parent_sources_info.count
              + SumOver([h \in Names |-> view.parent_header_files[h].count], Names)
            = count
         /\ view.parent_sources_info.duration
              + SumOver([h \in Names |-> view.parent_header_files[h].duration], Names)
            = view.duration
    /\ view.event_name \in { "InstantiateFunction", "InstantiateClass" } =>
         /\ view.parent_sources_info = ParentSourcesInfo
         /\ \A h \in Names : view.parent_header_files[h] = ParentHeaderInfo(0, 0)

\* C16: after a successful finish() every header-parse entity of the file
\* has as many attributions (to the source file and to parent headers) as
\* the file has occurrences of its name, and their durations add up to the
\* entity's duration, while an instantiation entity has none; and the same
\* holds of the process-wide entities after any successful folds, over the
\* occurrences of all the folded files.
C16_AttributionConserved ==
    err = NoError =>
        /\ \A f \in FoldedFiles : \A n \in Names :
               Conserves(folded[f].entities[n], Cardinality(OccurrencesOf(f, n)))
        /\ \A n \in Names :
               Conserves(TotalView(World)[n],
                         SumOver([f \in Files |-> Cardinality(OccurrencesOf(f, n))],
                                 FoldedFiles))

\* Two folded files, "a.h" under "b.h" in one and on its own in the other.
C16_Witness ==
    /\ err = NoError
    /\ FoldedFiles = {1, 2}
    /\ TotalView(World)["a.h"].event_name = "Source"
    /\ TotalView(World)["a.h"].parent_sources_info.count = 1
    /\ TotalView(World)["a.h"].parent_header_files["b.h"].count = 1
    /\ TotalView(World)["a.h"].duration = 3
    /\ TotalView(World)["b.h"].parent_sources_info.count = 1

----------------------------------------------------------------------------
(* The stack of the resolver *)

\* The elements of a sequence, and whether none occurs twice in it.
Range(seq) == { seq[k] : k \in 1 .. Len(seq) }
NoDuplicates(seq) == Cardinality(Range(seq)) = Len(seq)

\* The occurrences the resolver of file f popped.
PoppedBy(f) == [k \in 1 .. Len(resolver[f].pops) |-> resolver[f].pops[k][1]]

\* The occurrences the resolver of file f got to push: all of them, or,
\* when it aborted, those before the one whose pop failed.
PushedBy(f) ==
    LET pops == resolver[f].pops
    IN  IF err = ErrNesting THEN 1 .. (pops[Len(pops)][2] - 1)
        ELSE 1 .. Len(traces[f].time_infos)

\* C17: finish() ends, by an abort or by returning, with every occurrence
\* it got to pushed once and popped at most once: no occurrence is popped
\* twice or both popped and left on the stack, the pops are no more than
\* the occurrences, and when finish() returns every occurrence is either a
\* popped one, matched to one container, or one left on the stack and
\* counted once as top-level, never both and never neither (a second
\* finish() aborts at once and changes none of this).
C17_PushedOncePoppedAtMostOnce ==
    LET infos == traces[1].time_infos
        stack == resolver[1].waiting_entity_infos
        pops == resolver[1].pops
        matches == resolver[1].matches
        view == FileView(World, 1)
    IN  traces[1].finished =>
          /\ err \in { NoError, ErrNesting, ErrFinishTwice }
          /\ Len(pops) <= Len(infos)
          /\ NoDuplicates(PoppedBy(1) \o stack)
          /\ Range(PoppedBy(1) \o stack) = PushedBy(1)
          /\ err # ErrNesting =>
               /\ matches = pops
               /\ Len(matches) + Len(stack) = Len(infos)
               /\ SumOver([n \in Names |-> view[n].parent_sources_info.count], Names)
                    = Len(stack)
               /\ SumOver([n \in Names |->
                             SumOver([h \in Names |->
                                        view[n].parent_header_files[h].count], Names)],
                          Names)
                    = Len(matches)

\* Three occurrences resolved: two popped by the third, which stays.
C17_Witness ==
    /\ traces[1].finished
    /\ err = NoError
    /\ Len(traces[1].time_infos) = 3
    /\ resolver[1].pops = << <<2, 3>>, <<1, 3>> >>
    /\ resolver[1].waiting_entity_infos = << 3 >>


\* The local variables of finish() of file f after k iterations of its
\* outer loop (lines 178-193), finish() not yet called on the file.
ResolverAfter(f, k) ==
    resolve_from([ World EXCEPT !.traces[f].time_infos = SubSeq(@, 1, k),
                                !.resolver[f] = InitResolver ],
                 f, 1)

\* The stack holds occurrences among the first k, in arrival order, with
\* strictly increasing start timestamps from bottom to top.
IsIncreasingStack(infos, stack, k) ==
    /\ Range(stack) \subseteq 1 .. k
    /\ \A i, j \in 1 .. Len(stack) :
           i < j => /\ stack[i] < stack[j]
                    /\ Start(infos[stack[i]]) < Start(infos[stack[j]])

\* C18: after any number k of iterations of the outer loop of finish()
\* that did not abort, the stack is a subsequence, in arrival order, of
\* the first k occurrences, and its start timestamps increase strictly
\* from bottom to top; so it is when finish() has returned.
C18_StackIncreasing ==
    LET infos == traces[1].time_infos
    IN  /\ ~ traces[1].finished /\ err = NoError =>
            \A k \in 0 .. Len(infos) :
                ResolverAfter(1, k).err = NoError =>
                    IsIncreasingStack(infos,
                                      ResolverAfter(1, k).resolver[1].waiting_entity_infos,
                                      k)
        /\ traces[1].finished /\ err = NoError =>
            /\ IsIncreasingStack(infos, resolver[1].waiting_entity_infos, Len(infos))
            /\ infos # << >> =>
                 resolver[1].waiting_entity_infos[Len(resolver[1].waiting_entity_infos)]
                     = Len(infos)

\* The third occurrence popped the second and stays above the first.
C18_Witness ==
    /\ traces[1].finished
    /\ err = NoError
    /\ resolver[1].pops = << <<2, 3>> >>
    /\ resolver[1].waiting_entity_infos = << 1, 3 >>

====
